---- MODULE Spec2Model ----
(***************************************************************************)
(* A model of gpmp.core.Model (src/gpmp/core.py): the GP model object, the *)
(* process-wide backend flag, and one action per public method.  A call is *)
(* atomic (the library is single threaded and synchronous): the caller is  *)
(* either idle or holds the record of the call that has just ended.        *)
(*                                                                         *)
(* Numbers are exact extended rationals <<n, d>>, d >= 0, in lowest terms: *)
(* <<1,0>> is +inf, <<-1,0>> is -inf and <<0,0>> is NaN, with the IEEE     *)
(* rules for the non-finite values.  Rounding is not modelled.             *)
(***************************************************************************)
EXTENDS Integers, Sequences, FiniteSets, TLC

VARIABLES self, backend, pc, call

vars == <<self, backend, pc, call>>

(***************************************************************************)
(* Bounds of the model.                                                    *)
(***************************************************************************)
\* observed values zi are drawn from -MaxZ..MaxZ
MaxZ == 1
\* sample_paths draws 1..MaxPaths paths
MaxPaths == 2

(***************************************************************************)
(* Extended rational arithmetic.                                           *)
(***************************************************************************)
Abs(a) == IF a < 0 THEN -a ELSE a

Sign(a) == IF a < 0 THEN -1 ELSE IF a > 0 THEN 1 ELSE 0

RECURSIVE GCD(_, _)
GCD(a, b) == IF b = 0 THEN a ELSE GCD(b, a % b)

Frac(n, d) ==
  IF d = 0 THEN <<Sign(n), 0>>
  ELSE LET g == GCD(Abs(n), Abs(d))
       IN  <<(Sign(d) * n) \div g, Abs(d) \div g>>

R(i) == <<i, 1>>
Zero == <<0, 1>>
One == <<1, 1>>
NaN == <<0, 0>>
PInf == <<1, 0>>

IsNaN(x) == x[1] = 0 /\ x[2] = 0
IsFinite(x) == x[2] # 0

Neg(x) == <<-x[1], x[2]>>

Add(x, y) ==
  IF IsNaN(x) \/ IsNaN(y) THEN NaN
  ELSE IF x[2] = 0 /\ y[2] = 0 THEN (IF x = y THEN x ELSE NaN)
  ELSE IF x[2] = 0 THEN x
  ELSE IF y[2] = 0 THEN y
  ELSE LET g == GCD(x[2], y[2])
       IN  Frac(x[1] * (y[2] \div g) + y[1] * (x[2] \div g), (x[2] \div g) * y[2])

Sub(x, y) == Add(x, Neg(y))

Mul(x, y) ==
  IF IsNaN(x) \/ IsNaN(y) THEN NaN
  ELSE IF x[2] = 0 \/ y[2] = 0 \/ x[1] = 0 \/ y[1] = 0 THEN Frac(x[1] * y[1], x[2] * y[2])
  ELSE LET g == GCD(Abs(x[1]), y[2])
           h == GCD(Abs(y[1]), x[2])
       IN  <<(x[1] \div g) * (y[1] \div h), (x[2] \div h) * (y[2] \div g)>>

Div(x, y) ==
  IF IsNaN(x) \/ IsNaN(y) THEN NaN
  ELSE IF x[2] = 0 \/ y[2] = 0 \/ y[1] = 0 THEN Frac(x[1] * y[2], x[2] * y[1])
  ELSE Mul(x, <<Sign(y[1]) * y[2], Abs(y[1])>>)

\* x < 0. and x > 0. (both false of NaN)
Lt0(x) == x[1] < 0
Gt0(x) == x[1] > 0

RECURSIVE SeqSum(_)
SeqSum(s) == IF Len(s) = 0 THEN Zero ELSE Add(s[1], SeqSum(Tail(s)))

RECURSIVE SeqProd(_)
SeqProd(s) == IF Len(s) = 0 THEN One ELSE Mul(s[1], SeqProd(Tail(s)))

(***************************************************************************)
(* Dense arrays: a vector is a sequence of numbers, a matrix a sequence of *)
(* rows.                                                                   *)
(***************************************************************************)
NRows(A) == Len(A)
NCols(A) == IF Len(A) = 0 THEN 0 ELSE Len(A[1])

\* arrays are built as tuples, element by element
Vec(n, F(_)) == <<>> \o [i \in 1..n |-> F(i)]

Mat(n, m, F(_, _)) == Vec(n, LAMBDA i : Vec(m, LAMBDA j : F(i, j)))

Transpose(A) == Mat(NCols(A), NRows(A), LAMBDA i, j : A[j][i])

Eye(n) == Mat(n, n, LAMBDA i, j : IF i = j THEN One ELSE Zero)

Zeros(n, m) == Mat(n, m, LAMBDA i, j : Zero)

Diag(A) == Vec(NRows(A), LAMBDA i : A[i][i])

MatMul(A, B) ==
  Mat(NRows(A), NCols(B),
      LAMBDA i, j : SeqSum([k \in 1..NCols(A) |-> Mul(A[i][k], B[k][j])]))

MatVec(A, v) == Vec(NRows(A), LAMBDA i : SeqSum([k \in 1..Len(v) |-> Mul(A[i][k], v[k])]))

MatSub(A, B) == Mat(NRows(A), NCols(A), LAMBDA i, j : Sub(A[i][j], B[i][j]))

VecSub(u, v) == Vec(Len(u), LAMBDA i : Sub(u[i], v[i]))

\* gnp.hstack((A, B)) and gnp.vstack((A, B))
HStack(A, B) == Vec(NRows(A), LAMBDA i : A[i] \o B[i])
VStack(A, B) == A \o B

MatFinite(A) == \A i \in 1..NRows(A) : \A j \in 1..NCols(A) : IsFinite(A[i][j])
VecFinite(v) == \A i \in 1..Len(v) : IsFinite(v[i])

Minor(A, r, c) ==
  Mat(NRows(A) - 1, NCols(A) - 1,
      LAMBDA i, j : A[IF i < r THEN i ELSE i + 1][IF j < c THEN j ELSE j + 1])

RECURSIVE Det(_)
Det(A) ==
  IF Len(A) = 0 THEN One
  ELSE IF Len(A) = 1 THEN A[1][1]
  ELSE SeqSum([j \in 1..Len(A) |->
                 Mul(Mul(R(IF j % 2 = 1 THEN 1 ELSE -1), A[1][j]), Det(Minor(A, 1, j)))])

Inverse(A) ==
  LET d == Det(A)
  IN  Mat(NRows(A), NRows(A),
          LAMBDA i, j : Div(Mul(R(IF (i + j) % 2 = 0 THEN 1 ELSE -1), Det(Minor(A, j, i))), d))

LeadMinor(A, k) == Det(Mat(k, k, LAMBDA i, j : A[i][j]))

\* the k-th pivot of the Cholesky factorization: the square of the factor's
\* k-th diagonal entry
Pivot(A, k) == Div(LeadMinor(A, k), LeadMinor(A, k - 1))

PosDef(A) == \A k \in 1..NRows(A) : Gt0(LeadMinor(A, k))

(***************************************************************************)
(* Python values and the outcome of a call.                                *)
(***************************************************************************)
None == <<>>

Ok(v) == [ok |-> TRUE, v |-> v, exc |-> ""]
Fail(e) == [ok |-> FALSE, v |-> None, exc |-> e]

Ret(v, tr, w) ==
  [outcome |-> "return", exc |-> "", value |-> v, trace |-> tr, warnings |-> w]
Raised(e, tr, w) ==
  [outcome |-> "raise", exc |-> e, value |-> None, trace |-> tr, warnings |-> w]

(***************************************************************************)
(* The callables a Model is built with.  A point array is a sequence of    *)
(* points, a point a sequence of d integer coordinates.                    *)
(***************************************************************************)
Dim(x) == Len(x[1])

RECURSIVE IntProd(_)
IntProd(s) == IF Len(s) = 0 THEN 1 ELSE s[1] * IntProd(Tail(s))

\* a product of triangular kernels, scaled: covparam = <<sigma2, range>>,
\* sigma2 an extended rational (not positive: not admissible), range an integer
KPoint(p, q, covparam) ==
  Mul(covparam[1],
      R(IntProd([k \in 1..Len(p) |->
                   LET t == covparam[2] - Abs(p[k] - q[k]) IN IF t > 0 THEN t ELSE 0])))

\* K = self.covariance(x, y, covparam, pairwise); y = None stands for x
Covariance(kernel, x, y0, covparam, pairwise) ==
  LET y == IF y0 = None THEN x ELSE y0
  IN  IF covparam = None THEN Fail("TypeError")
      ELSE IF Dim(x) # Dim(y) THEN Fail("ValueError")
      ELSE IF pairwise
        THEN IF Len(x) # Len(y) THEN Fail("ValueError")
             ELSE Ok(Vec(Len(x), LAMBDA i : KPoint(x[i], y[i], covparam)))
        ELSE Ok(Mat(Len(x), Len(y), LAMBDA i, j : KPoint(x[i], y[j], covparam)))

\* P = self.mean(x, self.meanparam): the mean of the class docstring,
\* meanparam[0] + meanparam[1] * x, or no callable at all (None)
Mean(mean, x, meanparam) ==
  IF mean = "None" THEN Fail("TypeError")
  ELSE IF meanparam = None THEN Fail("TypeError")
  ELSE Ok(Mat(Len(x), Dim(x), LAMBDA i, j : R(meanparam[1] + meanparam[2] * x[i][j])))

(***************************************************************************)
(* The numeric backend gpmp.num.  A solve or a factorization that cannot   *)
(* be done (a matrix that is singular, not positive definite or not        *)
(* finite) is a backend failure, which propagates as an exception.         *)
(***************************************************************************)
\* gnp.solve(A, B): a general solve
Solve(A, B) ==
  IF ~MatFinite(A) \/ ~MatFinite(B) THEN Fail("ValueError")
  ELSE IF Det(A) = Zero THEN Fail("LinAlgError")
  ELSE Ok(MatMul(Inverse(A), B))

\* gnp.solve(A, B, sym_pos=True): a symmetric positive definite solve
SolveSymPos(A, B) ==
  IF ~MatFinite(A) \/ ~MatFinite(B) THEN Fail("ValueError")
  ELSE IF ~PosDef(A) THEN Fail("LinAlgError")
  ELSE Ok(MatMul(Inverse(A), B))

\* gnp.einsum("i..., i...", A, B) of two matrices of the same shape
EinsumColumns(A, B) ==
  Vec(NCols(A), LAMBDA j : SeqSum([i \in 1..NRows(A) |-> Mul(A[i][j], B[i][j])]))

\* gnp.einsum("i..., i...", A, z) of a matrix and a vector along the rows
EinsumRows(A, z) ==
  IF NRows(A) # Len(z) THEN Fail("ValueError")
  ELSE Ok(Vec(NCols(A), LAMBDA j : SeqSum([i \in 1..NRows(A) |-> Mul(A[i][j], z[i])])))

\* gnp.maximum(v, 0.), which propagates NaN
Maximum0(v) ==
  Vec(Len(v), LAMBDA j : IF IsNaN(v[j]) THEN NaN ELSE IF Gt0(v[j]) THEN v[j] ELSE Zero)

\* gnp.any(v < 0.)
AnyNegative(v) == \E j \in 1..Len(v) : Lt0(v[j])

(***************************************************************************)
(* Model.kriging_predictor_with_zero_mean and Model.kriging_predictor.     *)
(***************************************************************************)
\* a faulty posterior variance: return_type 0 gives the prior variance, the
\* reduction lambda' k not subtracted
PosteriorVarianceNotReduced(s, xt, return_type, lambdas, rhs, tr) ==
  IF return_type = -1 THEN Ret([lambda_t |-> None, variance |-> None], tr, <<>>)
  ELSE IF return_type = 0 THEN
    LET prior == Covariance(s.covariance, xt, None, s.covparam, TRUE)
        tr2 == Append(tr, "covariance(xt,pairwise)")
    IN  IF ~prior.ok THEN Raised(prior.exc, tr2, <<>>)
        ELSE Ret([lambda_t |-> None, variance |-> prior.v], Append(tr2, "einsum"), <<>>)
  ELSE IF return_type = 1 THEN
    LET prior == Covariance(s.covariance, xt, None, s.covparam, FALSE)
        tr2 == Append(tr, "covariance(xt,full)")
    IN  IF ~prior.ok THEN Raised(prior.exc, tr2, <<>>)
        ELSE Ret([lambda_t |-> None,
                  variance |-> MatSub(prior.v, MatMul(Transpose(lambdas), rhs))],
                 Append(tr2, "matmul"), <<>>)
  ELSE Raised("UnboundLocalError", tr, <<>>)

PosteriorVariance(s, xt, return_type, lambdas, rhs, tr) ==
  IF return_type = -1 THEN Ret([lambda_t |-> None, variance |-> None], tr, <<>>)
  ELSE IF return_type = 0 THEN
    LET prior == Covariance(s.covariance, xt, None, s.covparam, TRUE)
        tr2 == Append(tr, "covariance(xt,pairwise)")
    IN  IF ~prior.ok THEN Raised(prior.exc, tr2, <<>>)
        ELSE Ret([lambda_t |-> None,
                  variance |-> VecSub(prior.v, EinsumColumns(lambdas, rhs))],
                 Append(tr2, "einsum"), <<>>)
  ELSE IF return_type = 1 THEN
    LET prior == Covariance(s.covariance, xt, None, s.covparam, FALSE)
        tr2 == Append(tr, "covariance(xt,full)")
    IN  IF ~prior.ok THEN Raised(prior.exc, tr2, <<>>)
        ELSE Ret([lambda_t |-> None,
                  variance |-> MatSub(prior.v, MatMul(Transpose(lambdas), rhs))],
                 Append(tr2, "matmul"), <<>>)
  ELSE Raised("UnboundLocalError", tr, <<>>)

WithLambda(res, lambda_t) ==
  IF res.outcome = "return"
  THEN [res EXCEPT !.value = [lambda_t |-> lambda_t, variance |-> res.value.variance]]
  ELSE res

KrigingPredictorWithZeroMean(s, be, xi, xt, return_type) ==
  LET Kii == Covariance(s.covariance, xi, xi, s.covparam, FALSE)
      Kit == Covariance(s.covariance, xi, xt, s.covparam, FALSE)
      sol == IF be \in {"jax", "numpy"} THEN SolveSymPos(Kii.v, Kit.v) ELSE Solve(Kii.v, Kit.v)
      tr1 == <<"covariance(xi,xi)">>
      tr2 == Append(tr1, "covariance(xi,xt)")
      tr3 == Append(tr2, "solve")
  IN  IF ~Kii.ok THEN Raised(Kii.exc, tr1, <<>>)
      ELSE IF ~Kit.ok THEN Raised(Kit.exc, tr2, <<>>)
      ELSE IF ~sol.ok THEN Raised(sol.exc, tr3, <<>>)
      ELSE WithLambda(PosteriorVariance(s, xt, return_type, sol.v, Kit.v, tr3), sol.v)

\* a faulty predictor: the Lagrange-multiplier rows are left among the weights
KrigingPredictorWithMultipliers(s, be, xi, xt, return_type) ==
  LET Kii == Covariance(s.covariance, xi, xi, s.covparam, FALSE)
      Pi == Mean(s.mean, xi, s.meanparam)
      ni == NRows(Pi.v)
      q == NCols(Pi.v)
      LHS == VStack(HStack(Kii.v, Pi.v), HStack(Transpose(Pi.v), Zeros(q, q)))
      Kit == Covariance(s.covariance, xi, xt, s.covparam, FALSE)
      Pt == Mean(s.mean, xt, s.meanparam)
      RHS == VStack(Kit.v, Transpose(Pt.v))
      lambdamu_t == Solve(LHS, RHS)
      lambda_t == lambdamu_t.v
      tr1 == <<"covariance(xi,xi)">>
      tr2 == Append(tr1, "mean(xi)")
      tr3 == Append(tr2, "covariance(xi,xt)")
      tr4 == Append(tr3, "mean(xt)")
      tr5 == Append(tr4, "solve")
  IN  IF ~Kii.ok THEN Raised(Kii.exc, tr1, <<>>)
      ELSE IF ~Pi.ok THEN Raised(Pi.exc, tr2, <<>>)
      ELSE IF ~Kit.ok THEN Raised(Kit.exc, tr3, <<>>)
      ELSE IF ~Pt.ok THEN Raised(Pt.exc, tr4, <<>>)
      ELSE IF ~lambdamu_t.ok THEN Raised(lambdamu_t.exc, tr5, <<>>)
      ELSE WithLambda(PosteriorVariance(s, xt, return_type, lambdamu_t.v, RHS, tr5), lambda_t)

KrigingPredictor(s, be, xi, xt, return_type) ==
  LET Kii == Covariance(s.covariance, xi, xi, s.covparam, FALSE)
      Pi == Mean(s.mean, xi, s.meanparam)
      ni == NRows(Pi.v)
      q == NCols(Pi.v)
      LHS == VStack(HStack(Kii.v, Pi.v), HStack(Transpose(Pi.v), Zeros(q, q)))
      Kit == Covariance(s.covariance, xi, xt, s.covparam, FALSE)
      Pt == Mean(s.mean, xt, s.meanparam)
      RHS == VStack(Kit.v, Transpose(Pt.v))
      lambdamu_t == Solve(LHS, RHS)
      lambda_t == SubSeq(lambdamu_t.v, 1, ni)
      tr1 == <<"covariance(xi,xi)">>
      tr2 == Append(tr1, "mean(xi)")
      tr3 == Append(tr2, "covariance(xi,xt)")
      tr4 == Append(tr3, "mean(xt)")
      tr5 == Append(tr4, "solve")
  IN  IF ~Kii.ok THEN Raised(Kii.exc, tr1, <<>>)
      ELSE IF ~Pi.ok THEN Raised(Pi.exc, tr2, <<>>)
      ELSE IF ~Kit.ok THEN Raised(Kit.exc, tr3, <<>>)
      ELSE IF ~Pt.ok THEN Raised(Pt.exc, tr4, <<>>)
      ELSE IF ~lambdamu_t.ok THEN Raised(lambdamu_t.exc, tr5, <<>>)
      ELSE WithLambda(PosteriorVariance(s, xt, return_type, lambdamu_t.v, RHS, tr5), lambda_t)

(***************************************************************************)
(* Model.predict.                                                          *)
(***************************************************************************)
\* the array type gnp.asarray gives, and the one gnp.to_np gives
BackendArray(be) == IF be = "numpy" THEN "ndarray" ELSE IF be = "jax" THEN "jax.Array" ELSE "torch.Tensor"

\* the dispatch of predict, with the default return_type = 0
Dispatch(s, be, xi, xt) ==
  LET pred == IF s.mean = "None"
              THEN KrigingPredictorWithZeroMean(s, be, xi, xt, 0)
              ELSE KrigingPredictor(s, be, xi, xt, 0)
  IN  [pred EXCEPT !.trace = <<IF s.mean = "None" THEN "kriging_predictor_with_zero_mean"
                               ELSE "kriging_predictor">> \o pred.trace]

\* a faulty check: the clamp is left out
VarianceCheckNoClamp(variance, zero_neg_variances) ==
  [warnings |-> IF AnyNegative(variance) THEN <<"RuntimeWarning">> ELSE <<>>,
   variance |-> variance]

\* a faulty check: the clamp comes first, the check sees the clamped variance
VarianceCheckAfterClamp(variance, zero_neg_variances) ==
  LET clamped == IF zero_neg_variances THEN Maximum0(variance) ELSE variance
  IN  [warnings |-> IF AnyNegative(clamped) THEN <<"RuntimeWarning">> ELSE <<>>,
       variance |-> clamped]

\* the check of the predictor's variance, then the clamp
VarianceCheck(variance, zero_neg_variances) ==
  [warnings |-> IF AnyNegative(variance) THEN <<"RuntimeWarning">> ELSE <<>>,
   variance |-> IF zero_neg_variances THEN Maximum0(variance) ELSE variance]

\* predict, pred being the dispatch on (xi_, xt_), which is evaluated only
\* once the inputs are converted
Predict(pred, be, zi, return_lambdas, zero_neg_variances, convert_in, convert_out) ==
  IF ~convert_in THEN Raised("UnboundLocalError", <<>>, <<>>)
  ELSE IF pred.outcome = "raise" THEN pred
  ELSE
    LET lambda_t == pred.value.lambda_t
        checked == VarianceCheck(pred.value.variance, zero_neg_variances)
        mean == EinsumRows(lambda_t, zi)
        type == IF convert_out THEN "ndarray" ELSE BackendArray(be)
    IN  IF ~mean.ok THEN Raised(mean.exc, Append(pred.trace, "einsum"), checked.warnings)
        ELSE Ret([mean |-> mean.v, variance |-> checked.variance,
                  lambda_t |-> IF return_lambdas THEN lambda_t ELSE None,
                  length |-> IF return_lambdas THEN 3 ELSE 2,
                  type |-> type],
                 Append(pred.trace, "einsum"), checked.warnings)

(***************************************************************************)
(* Factorizations of the backend.                                          *)
(***************************************************************************)
\* F applied to the value v, which is computed once
With(v, F(_)) == F(v)

Dot(u, v) == SeqSum([k \in 1..Len(u) |-> Mul(u[k], v[k])])

\* gnp.cho_factor(K) (numpy, jax) and gnp.cholesky(K) (torch).  The factor
\* is kept as the matrix it factors and the squares of its diagonal: its
\* entries are square roots, which are not rational in general.
ChoFactor(K, be) ==
  IF ~MatFinite(K) \/ ~PosDef(K)
  THEN Fail(IF be = "torch" THEN "RuntimeError" ELSE "LinAlgError")
  ELSE Ok([of |-> K, diag2 |-> Vec(NRows(K), LAMBDA k : Pivot(K, k))])

\* gnp.cho_solve((C, lower), b) and gnp.cholesky_solve(b, C, upper=False)
ChoSolve(C, b) ==
  IF Len(b) # NRows(C.of) THEN Fail("ValueError") ELSE Ok(MatVec(Inverse(C.of), b))

ChoSolveMat(C, B) == MatMul(Inverse(C.of), B)

\* exp of 2. * gnp.sum(gnp.log(gnp.diag(C))): the determinant of the factored matrix
ExpLogDet(C) == SeqProd(C.diag2)

IsSquare(a) == \E r \in 0..a : r * r = a
ISqrt(a) == CHOOSE r \in 0..a : r * r = a

\* the square root of a rational that has a rational one
SqrtExact(x) == x[1] >= 0 /\ x[2] > 0 /\ IsSquare(x[1]) /\ IsSquare(x[2])
Sqrt(x) == <<ISqrt(x[1]), ISqrt(x[2])>>

\* the Householder reflection LAPACK builds for column k of A, rows k to n
Reflector(A, k) ==
  LET n == NRows(A)
      x == Vec(n, LAMBDA i : IF i < k THEN Zero ELSE A[i][k])
      norm == Sqrt(Dot(x, x))
      beta == IF Lt0(x[k]) THEN norm ELSE Neg(norm)
      v == Vec(n, LAMBDA i : IF i = k THEN Sub(x[i], beta) ELSE x[i])
      vv == Dot(v, v)
  IN  IF \A i \in (k + 1)..n : x[i] = Zero THEN Eye(n)
      ELSE Mat(n, n, LAMBDA i, j :
                 Sub(IF i = j THEN One ELSE Zero, Div(Mul(R(2), Mul(v[i], v[j])), vv)))

RECURSIVE QRQ(_, _, _)
QRQ(A, k, Q) ==
  IF k > NCols(A) \/ k > NRows(A) THEN Q
  ELSE With(Reflector(A, k), LAMBDA H : QRQ(MatMul(H, A), k + 1, MatMul(Q, H)))

\* the factor Q of [Q, R] = gnp.qr(P, "complete")
QrComplete(P) == QRQ(P, 1, Eye(NRows(P)))

\* the mean bases whose factor Q is rational: one column of rational norm
ExactQR(P) ==
  NCols(P) = 1 /\ SqrtExact(SeqSum([i \in 1..NRows(P) |-> Mul(P[i][1], P[i][1])]))

(***************************************************************************)
(* Model.loo_with_zero_mean and Model.loo.                                 *)
(***************************************************************************)
\* faulty virtual cross-validation formulas: the residual is not divided by
\* the diagonal of Qinv
VirtualCrossValidationUnscaled(Qinv, zi, tr) ==
  IF Len(zi) # NRows(Qinv) THEN Raised("ValueError", Append(tr, "matmul"), <<>>)
  ELSE
    LET n == NRows(Qinv)
        Qinvzi == MatVec(Qinv, zi)
        Qinvdiag == Diag(Qinv)
        eloo == Qinvzi
        sigma2loo == Vec(n, LAMBDA i : Div(One, Qinvdiag[i]))
        zloo == VecSub(zi, eloo)
    IN  Ret([zloo |-> zloo, sigma2loo |-> sigma2loo, eloo |-> eloo],
            Append(tr, "matmul"), <<>>)

\* the virtual cross-validation formulas on the (projected) inverse Qinv
VirtualCrossValidation(Qinv, zi, tr) ==
  IF Len(zi) # NRows(Qinv) THEN Raised("ValueError", Append(tr, "matmul"), <<>>)
  ELSE
    LET n == NRows(Qinv)
        Qinvzi == MatVec(Qinv, zi)
        Qinvdiag == Diag(Qinv)
        eloo == Vec(n, LAMBDA i : Div(Qinvzi[i], Qinvdiag[i]))
        sigma2loo == Vec(n, LAMBDA i : Div(One, Qinvdiag[i]))
        zloo == VecSub(zi, eloo)
    IN  Ret([zloo |-> zloo, sigma2loo |-> sigma2loo, eloo |-> eloo],
            Append(tr, "matmul"), <<>>)

LooWithZeroMean(s, be, xi, zi) ==
  With(Covariance(s.covariance, xi, xi, s.covparam, FALSE), LAMBDA K :
    IF ~K.ok THEN Raised(K.exc, <<"covariance(xi,xi)">>, <<>>)
    ELSE With(ChoFactor(K.v, be), LAMBDA C :
      IF ~C.ok THEN Raised(C.exc, <<"covariance(xi,xi)", "cholesky">>, <<>>)
      ELSE With(ChoSolveMat(C.v, Eye(Len(xi))), LAMBDA Kinv :
        VirtualCrossValidation(Kinv, zi,
                               <<"covariance(xi,xi)", "cholesky", "cho_solve">>))))

\* a faulty loo: the mean is ignored, the zero-mean formulas are used
LooIgnoringMean(s, be, xi, zi) == LooWithZeroMean(s, be, xi, zi)

Loo(s, be, xi, zi) ==
  With(Covariance(s.covariance, xi, xi, s.covparam, FALSE), LAMBDA K :
    IF ~K.ok THEN Raised(K.exc, <<"covariance(xi,xi)">>, <<>>)
    ELSE With(Mean(s.mean, xi, s.meanparam), LAMBDA P :
      IF ~P.ok THEN Raised(P.exc, <<"covariance(xi,xi)", "mean(xi)">>, <<>>)
      ELSE With(ChoFactor(K.v, be), LAMBDA C :
        IF ~C.ok THEN Raised(C.exc, <<"covariance(xi,xi)", "mean(xi)", "cholesky">>, <<>>)
        ELSE With(ChoSolveMat(C.v, Eye(Len(xi))), LAMBDA Kinv :
          With(ChoSolveMat(C.v, P.v), LAMBDA KinvP :
            With(Solve(MatMul(Transpose(P.v), KinvP), Transpose(KinvP)), LAMBDA Rs :
              IF ~Rs.ok
              THEN Raised(Rs.exc, <<"covariance(xi,xi)", "mean(xi)", "cholesky",
                                    "cho_solve", "cho_solve", "solve">>, <<>>)
              ELSE VirtualCrossValidation(
                     MatSub(Kinv, MatMul(KinvP, Rs.v)), zi,
                     <<"covariance(xi,xi)", "mean(xi)", "cholesky",
                       "cho_solve", "cho_solve", "solve">>)))))))

(***************************************************************************)
(* The likelihood engine.  A criterion value 0.5 * (m * log(2 pi) +        *)
(* log(det) + norm2) is kept as (m, det, norm2), the logarithm not being   *)
(* rational; positive infinity is a value of its own.                      *)
(***************************************************************************)
Criterion(m, det, norm2) == [kind |-> "finite", log2pi |-> m, det |-> det, norm2 |-> norm2]

InfTensor == [kind |-> "inf", log2pi |-> 0, det |-> One, norm2 |-> Zero]

\* negative_log_likelihood from the covariance matrix K on
GaussianCriterion(K, be, zi) ==
  IF ~K.ok THEN Raised(K.exc, <<"covariance(xi,xi)">>, <<>>)
  ELSE With(ChoFactor(K.v, be), LAMBDA C :
    IF ~C.ok THEN Raised(C.exc, <<"covariance(xi,xi)", "cholesky">>, <<>>)
    ELSE With(ChoSolve(C.v, zi), LAMBDA Kinv_zi :
      IF ~Kinv_zi.ok
      THEN Raised(Kinv_zi.exc, <<"covariance(xi,xi)", "cholesky", "cho_solve">>, <<>>)
      ELSE Ret(Criterion(NRows(K.v), ExpLogDet(C.v), Dot(zi, Kinv_zi.v)),
               <<"covariance(xi,xi)", "cholesky", "cho_solve", "einsum">>, <<>>)))

\* a faulty likelihood: the covariance is evaluated at the stored covparam
NegativeLogLikelihoodStored(s, be, covparam, xi, zi) ==
  GaussianCriterion(Covariance(s.covariance, xi, xi, s.covparam, FALSE), be, zi)

NegativeLogLikelihood(s, be, covparam, xi, zi) ==
  GaussianCriterion(Covariance(s.covariance, xi, xi, covparam, FALSE), be, zi)

\* the contrasts: W = Q[:, q:n], Wzi = W' zi and G = W' (K W)
ContrastMatrix(P) ==
  With(QrComplete(P), LAMBDA Q :
    Mat(NRows(P), NRows(P) - NCols(P), LAMBDA i, j : Q[i][NCols(P) + j]))

\* a faulty criterion: the determinant of G is taken from the first pivot of
\* its Cholesky factor alone (G[1][1], its square), not from all of them
RestrictedCriterionFirstPivot(K, W, q, be, zi) ==
  IF Len(zi) # NRows(W)
  THEN Raised("ValueError", <<"covariance(xi,xi)", "mean(xi)", "qr", "matmul">>, <<>>)
  ELSE With(MatVec(Transpose(W), zi), LAMBDA Wzi :
    With(MatMul(Transpose(W), MatMul(K, W)), LAMBDA G :
      With(ChoFactor(G, be), LAMBDA C :
        IF ~C.ok
        THEN IF be = "torch"
             THEN Ret(InfTensor, <<"covariance(xi,xi)", "mean(xi)", "qr", "matmul",
                                   "matmul", "cholesky">>, <<>>)
             ELSE Raised(C.exc, <<"covariance(xi,xi)", "mean(xi)", "qr", "matmul",
                                  "matmul", "cholesky">>, <<>>)
        ELSE Ret(Criterion(NRows(W) - q, G[1][1],
                           Dot(Wzi, ChoSolve(C.v, Wzi).v)),
                 <<"covariance(xi,xi)", "mean(xi)", "qr", "matmul", "matmul",
                   "cholesky", "cho_solve", "einsum">>, <<>>))))

\* negative_log_restricted_likelihood from the contrast matrix W on: K the
\* covariance matrix, q the number of columns of P
RestrictedCriterion(K, W, q, be, zi) ==
  IF Len(zi) # NRows(W)
  THEN Raised("ValueError", <<"covariance(xi,xi)", "mean(xi)", "qr", "matmul">>, <<>>)
  ELSE With(MatVec(Transpose(W), zi), LAMBDA Wzi :
    With(MatMul(Transpose(W), MatMul(K, W)), LAMBDA G :
      With(ChoFactor(G, be), LAMBDA C :
        IF ~C.ok
        THEN IF be = "torch"
             THEN Ret(InfTensor, <<"covariance(xi,xi)", "mean(xi)", "qr", "matmul",
                                   "matmul", "cholesky">>, <<>>)
             ELSE Raised(C.exc, <<"covariance(xi,xi)", "mean(xi)", "qr", "matmul",
                                  "matmul", "cholesky">>, <<>>)
        ELSE Ret(Criterion(NRows(W) - q, ExpLogDet(C.v),
                           Dot(Wzi, ChoSolve(C.v, Wzi).v)),
                 <<"covariance(xi,xi)", "mean(xi)", "qr", "matmul", "matmul",
                   "cholesky", "cho_solve", "einsum">>, <<>>))))

NegativeLogRestrictedLikelihood(s, be, covparam, xi, zi) ==
  With(Covariance(s.covariance, xi, xi, covparam, FALSE), LAMBDA K :
    IF ~K.ok THEN Raised(K.exc, <<"covariance(xi,xi)">>, <<>>)
    ELSE With(Mean(s.mean, xi, s.meanparam), LAMBDA P :
      IF ~P.ok THEN Raised(P.exc, <<"covariance(xi,xi)", "mean(xi)">>, <<>>)
      ELSE RestrictedCriterion(K.v, ContrastMatrix(P.v), NCols(P.v), be, zi)))

NormKSqrdWithZeroMean(s, be, xi, zi, covparam) ==
  With(Covariance(s.covariance, xi, xi, covparam, FALSE), LAMBDA K :
    IF ~K.ok THEN Raised(K.exc, <<"covariance(xi,xi)">>, <<>>)
    ELSE With(ChoFactor(K.v, be), LAMBDA C :
      IF ~C.ok THEN Raised(C.exc, <<"covariance(xi,xi)", "cholesky">>, <<>>)
      ELSE With(ChoSolve(C.v, zi), LAMBDA Kinv_zi :
        IF ~Kinv_zi.ok
        THEN Raised(Kinv_zi.exc, <<"covariance(xi,xi)", "cholesky", "cho_solve">>, <<>>)
        ELSE Ret(Dot(zi, Kinv_zi.v),
                 <<"covariance(xi,xi)", "cholesky", "cho_solve", "einsum">>, <<>>))))

NormKSqrd(s, be, xi, zi, covparam) ==
  With(Covariance(s.covariance, xi, xi, covparam, FALSE), LAMBDA K :
    IF ~K.ok THEN Raised(K.exc, <<"covariance(xi,xi)">>, <<>>)
    ELSE With(Mean(s.mean, xi, s.meanparam), LAMBDA P :
      IF ~P.ok THEN Raised(P.exc, <<"covariance(xi,xi)", "mean(xi)">>, <<>>)
      ELSE With(ContrastMatrix(P.v), LAMBDA W :
        IF Len(zi) # NRows(W)
        THEN Raised("ValueError", <<"covariance(xi,xi)", "mean(xi)", "qr", "matmul">>, <<>>)
        ELSE With(MatVec(Transpose(W), zi), LAMBDA Wzi :
          With(MatMul(Transpose(W), MatMul(K.v, W)), LAMBDA G :
            With(ChoFactor(G, be), LAMBDA C :
              IF ~C.ok
              THEN Raised(C.exc, <<"covariance(xi,xi)", "mean(xi)", "qr", "matmul",
                                   "matmul", "cholesky">>, <<>>)
              ELSE Ret(Dot(Wzi, ChoSolve(C.v, Wzi).v),
                       <<"covariance(xi,xi)", "mean(xi)", "qr", "matmul", "matmul",
                         "cholesky", "cho_solve", "einsum">>, <<>>)))))))

(***************************************************************************)
(* The sample path engine.                                                 *)
(***************************************************************************)
\* the square root of IEEE arithmetic
SqrtIEEE(x) == IF IsNaN(x) \/ Lt0(x) THEN NaN ELSE IF x = PInf THEN PInf ELSE Sqrt(x)

\* entry (i, j), j <= i, of the lower Cholesky factor of K, and the pivot
\* under its i-th diagonal entry
RECURSIVE CholEntry(_, _, _)
CholEntry(K, i, j) ==
  LET acc == SeqSum([k \in 1..(j - 1) |-> Mul(CholEntry(K, i, k), CholEntry(K, j, k))])
  IN  IF i = j THEN SqrtIEEE(Sub(K[i][i], acc))
      ELSE Div(Sub(K[i][j], acc), CholEntry(K, j, j))

CholPivot(K, i) ==
  Sub(K[i][i], SeqSum([k \in 1..(i - 1) |-> Mul(CholEntry(K, i, k), CholEntry(K, i, k))]))

\* the factorization from pivot i on: "ok", "fail" at a pivot that is not
\* positive, "inexact" at a pivot without a rational square root
RECURSIVE CholScan(_, _)
CholScan(K, i) ==
  IF i > NRows(K) THEN "ok"
  ELSE With(CholPivot(K, i), LAMBDA p :
         IF IsNaN(p) \/ ~Gt0(p) THEN "fail"
         ELSE IF IsFinite(p) /\ ~SqrtExact(p) THEN "inexact"
         ELSE CholScan(K, i + 1))

\* gnp.cholesky(K, lower=True, overwrite_a=True).  on_failure is what the
\* backend does with a matrix it cannot factor or that is not finite:
\* "raise", or "propagate" the non-finite values into the factor
Cholesky(K, on_failure) ==
  IF on_failure = "raise" /\ ~MatFinite(K) THEN Fail("ValueError")
  ELSE IF CholScan(K, 1) = "fail"
    THEN IF on_failure = "raise" THEN Fail("LinAlgError")
         ELSE Ok(Mat(NRows(K), NRows(K), LAMBDA i, j : NaN))
  ELSE Ok(Mat(NRows(K), NRows(K), LAMBDA i, j : IF j > i THEN Zero ELSE CholEntry(K, i, j)))

IsDiagonal(K) == \A i \in 1..NRows(K) : \A j \in 1..NRows(K) : i # j => K[i][j] = Zero

\* gnp.svd(K, hermitian=True) followed by (u * sqrt(s)) vt, for a diagonal K:
\* s = |K_ii|, and column i of u times row i of vt is sign(K_ii) e_i e_i'
SvdSquareRoot(K) ==
  IF ~MatFinite(K) THEN Fail("LinAlgError")
  ELSE Ok(Mat(NRows(K), NRows(K), LAMBDA i, j :
            IF i # j THEN Zero
            ELSE Mul(R(Sign(K[i][i][1])), Sqrt(<<Abs(K[i][i][1]), K[i][i][2]>>))))

\* the covariance matrices whose square root is rational
ExactSquareRoot(K, method) ==
  IF method = "chol" THEN CholScan(K, 1) # "inexact"
  ELSE ~MatFinite(K) \/ (IsDiagonal(K) /\ \A i \in 1..NRows(K) :
                            SqrtExact(<<Abs(K[i][i][1]), K[i][i][2]>>))

HasNaN(C) == \E i \in 1..NRows(C) : \E j \in 1..NCols(C) : IsNaN(C[i][j])

\* sample_paths up to the factor C
SamplePathsFactor(s, xt, method, check_result, on_failure) ==
  With(Covariance(s.covariance, xt, xt, s.covparam, FALSE), LAMBDA K :
    IF ~K.ok THEN Raised(K.exc, <<"covariance(xt,xt)">>, <<>>)
    ELSE IF method = "chol" THEN
      With(Cholesky(K.v, on_failure), LAMBDA C :
        IF ~C.ok THEN Raised(C.exc, <<"covariance(xt,xt)", "cholesky">>, <<>>)
        ELSE IF check_result /\ HasNaN(C.v)
          THEN Raised("AssertionError", <<"covariance(xt,xt)", "cholesky">>, <<>>)
        ELSE Ret(C.v, <<"covariance(xt,xt)", "cholesky">>, <<>>))
    ELSE IF method = "svd" THEN
      With(SvdSquareRoot(K.v), LAMBDA C :
        IF ~C.ok THEN Raised(C.exc, <<"covariance(xt,xt)", "svd">>, <<>>)
        ELSE Ret(C.v, <<"covariance(xt,xt)", "svd">>, <<>>))
    ELSE Raised("UnboundLocalError", <<"covariance(xt,xt)">>, <<>>))

\* sample_paths from the factor on, randn being the draws of gnp.randn
SamplePaths(factor, randn) ==
  IF factor.outcome = "raise" THEN factor
  ELSE Ret(MatMul(factor.value, randn), factor.trace \o <<"randn", "matmul">>, <<>>)

\* a[ind, :], ind a sequence of Python indices
InRange(ind, n) == \A i \in 1..Len(ind) : -n <= ind[i] /\ ind[i] < n
Take(a, ind) ==
  Vec(Len(ind), LAMBDA i : a[IF ind[i] < 0 THEN NRows(a) + ind[i] + 1 ELSE ind[i] + 1])

\* the rows of two arrays broadcast against each other
BroadcastOk(n, m) == n = m \/ n = 1 \/ m = 1
Row(A, i) == IF NRows(A) = 1 THEN A[1] ELSE A[i]
Larger(n, m) == IF n > m THEN n ELSE m

\* a faulty residual: the sign is flipped
ResidualFlipped(z, zsim) == Sub(zsim, z)

\* an entry of d = zi_.reshape((-1, 1)) - ztsim_[xi_ind, :]
Residual(z, zsim) == Sub(z, zsim)

ConditionalSamplePaths(ztsim, xi_ind, zi, xt_ind, lambda_t) ==
  IF ~InRange(xi_ind, NRows(ztsim)) THEN Raised("IndexError", <<>>, <<>>)
  ELSE IF ~BroadcastOk(Len(zi), Len(xi_ind)) THEN Raised("ValueError", <<>>, <<>>)
  ELSE IF ~InRange(xt_ind, NRows(ztsim)) THEN Raised("IndexError", <<>>, <<>>)
  ELSE
    LET nb == NCols(ztsim)
        zcol == Vec(Len(zi), LAMBDA i : <<zi[i]>>)
        zobs == Take(ztsim, xi_ind)
        d == Mat(Larger(Len(zi), Len(xi_ind)), nb,
                 LAMBDA i, k : Residual(Row(zcol, i)[1], Row(zobs, i)[k]))
        kriged == Mat(NCols(lambda_t), nb,
                      LAMBDA j, k : SeqSum([i \in 1..NRows(d) |-> Mul(lambda_t[i][j], d[i][k])]))
        ztgt == Take(ztsim, xt_ind)
    IN  IF NRows(lambda_t) # NRows(d) THEN Raised("ValueError", <<"einsum">>, <<>>)
        ELSE IF ~BroadcastOk(NRows(ztgt), NRows(kriged))
          THEN Raised("ValueError", <<"einsum">>, <<>>)
        ELSE Ret(Mat(Larger(NRows(ztgt), NRows(kriged)), nb,
                     LAMBDA j, k : Add(Row(ztgt, j)[k], Row(kriged, j)[k])),
                 <<"einsum">>, <<>>)

(***************************************************************************)
(* The inputs of the calls.                                                *)
(***************************************************************************)
Backends == {"numpy", "jax", "torch"}

MeanKinds == {"None", "linear"}

\* meanparam of the linear mean: a line through the origin, a constant
MeanParams == {<<0, 1>>, <<1, 0>>}

\* admissible, not admissible (negative variance parameter), overflowed
CovParams == {<<R(2), 2>>, <<R(-2), 2>>, <<PInf, 2>>}

\* observation points: one point, two points, a repeated point, two points in
\* the plane
XiSet == {<< <<0>> >>, << <<3>>, <<4>> >>, << <<1>>, <<1>> >>, << <<0, 0>>, <<1, 0>> >>}

\* target points
XtSet == {<< <<1>> >>, << <<3>>, <<5>> >>, << <<1, 1>> >>}

\* observed values; an axis of length 1 against a longer one is left out,
\* the backends differing on whether einsum broadcasts it
ZiSet == {<<R(1)>>, <<R(0), R(1)>>, <<R(1), R(-1)>>, <<R(1), R(0), R(1)>>}

\* observation points of the LOO engine: those of predict, and three points on
\* the line
XiLoo == XiSet \cup {<< <<0>>, <<1>>, <<3>> >>}

Compatible(xi, zi) == Len(xi) = Len(zi) \/ (Len(xi) > 1 /\ Len(zi) > 1)

\* the inputs of the likelihood engine: observation points on the line,
\* covariance parameters and observed values
XiLik == {<< <<3>>, <<4>> >>, << <<0>>, <<1>>, <<2>>, <<-2>> >>}

CovArgs == CovParams

ZiLik == ZiSet \cup {<<R(1), R(0), R(-1), R(1)>>}

\* the observation points at which the mean basis has a rational factor Q
LikExact(s, xi) ==
  LET P == Mean(s.mean, xi, s.meanparam) IN P.ok => ExactQR(P.v)

\* the inputs of sample_paths; gnp.randn draws from Draws
XtPaths == {<< <<0>> >>, << <<0>>, <<2>> >>, << <<1>>, <<1>> >>}

Methods == {"chol", "svd"}

Draws == {R(-1), R(1)}

RandnSet(n, nb) == [1..n -> [1..nb -> Draws]]

\* the inputs of conditional_sample_paths: unconditional paths, indices into
\* them, observed values and kriging weights
ZtSimSet == {<< <<R(1)>>, <<R(-1)>> >>, << <<R(0), R(1)>>, <<R(1), R(-1)>> >>}

IndSet == {<<0>>, <<0, 1>>, <<2>>}

ZiCond == UNION {[1..n -> {R(v) : v \in 0..MaxZ}] : n \in 1..2}

LambdaSet == {Eye(1), Eye(2), << <<Frac(1, 2)>>, <<Frac(1, 2)>> >>}

ReturnTypes == {-1, 0, 1}

NoCall == [op |-> "none", args |-> None, outcome |-> "none", exc |-> "",
           value |-> None, trace |-> <<>>, warnings |-> <<>>]

Called(op, args, res) ==
  [op |-> op, args |-> args, outcome |-> res.outcome, exc |-> res.exc,
   value |-> res.value, trace |-> res.trace, warnings |-> res.warnings]

(***************************************************************************)
(* The state machine.                                                      *)
(***************************************************************************)
\* Model.__init__, with gpmp.num already imported; meanparam and covparam
\* default to None
Init ==
  /\ backend \in Backends
  /\ \E mean \in MeanKinds, meanparam \in MeanParams \cup {None},
        covparam \in CovParams \cup {None} :
       /\ (mean = "None") = (meanparam = None)
       /\ self = [mean |-> mean, covariance |-> "kernel",
                  meanparam |-> meanparam, covparam |-> covparam]
  /\ pc = "idle"
  /\ call = NoCall

\* a faulty predictor call: the weights are kept on the Model
kriging_predictor_with_zero_mean_caching ==
  /\ pc = "idle"
  /\ \E xi \in XiSet, xt \in XtSet, return_type \in ReturnTypes :
       LET res == KrigingPredictorWithZeroMean(self, backend, xi, xt, return_type)
       IN  /\ call' = Called("kriging_predictor_with_zero_mean",
                             [xi |-> xi, xt |-> xt, return_type |-> return_type], res)
           /\ self' = [mean |-> self.mean, covariance |-> self.covariance,
                       meanparam |-> self.meanparam, covparam |-> self.covparam,
                       lambda_t |-> res.value]
  /\ pc' = "returned"
  /\ UNCHANGED backend

kriging_predictor_with_zero_mean ==
  /\ pc = "idle"
  /\ \E xi \in XiSet, xt \in XtSet, return_type \in ReturnTypes :
       call' = Called("kriging_predictor_with_zero_mean",
                      [xi |-> xi, xt |-> xt, return_type |-> return_type],
                      KrigingPredictorWithZeroMean(self, backend, xi, xt, return_type))
  /\ pc' = "returned"
  /\ UNCHANGED <<self, backend>>

kriging_predictor ==
  /\ pc = "idle"
  /\ \E xi \in XiSet, xt \in XtSet, return_type \in ReturnTypes :
       call' = Called("kriging_predictor",
                      [xi |-> xi, xt |-> xt, return_type |-> return_type],
                      KrigingPredictor(self, backend, xi, xt, return_type))
  /\ pc' = "returned"
  /\ UNCHANGED <<self, backend>>

PredictCalls(pred, xi, xt) ==
  \E zi \in ZiSet, return_lambdas \in BOOLEAN, zero_neg_variances \in BOOLEAN,
     convert_in \in BOOLEAN, convert_out \in BOOLEAN :
    /\ Compatible(xi, zi)
    /\ call' = Called("predict",
                      [xi |-> xi, zi |-> zi, xt |-> xt,
                       return_lambdas |-> return_lambdas,
                       zero_neg_variances |-> zero_neg_variances,
                       convert_in |-> convert_in, convert_out |-> convert_out],
                      Predict(pred, backend, zi, return_lambdas, zero_neg_variances,
                              convert_in, convert_out))

predict ==
  /\ pc = "idle"
  /\ \E xi \in XiSet, xt \in XtSet : PredictCalls(Dispatch(self, backend, xi, xt), xi, xt)
  /\ pc' = "returned"
  /\ UNCHANGED <<self, backend>>

loo_with_zero_mean ==
  /\ pc = "idle"
  /\ \E xi \in XiLoo, zi \in ZiSet :
       call' = Called("loo_with_zero_mean", [xi |-> xi, zi |-> zi],
                      LooWithZeroMean(self, backend, xi, zi))
  /\ pc' = "returned"
  /\ UNCHANGED <<self, backend>>

loo ==
  /\ pc = "idle"
  /\ \E xi \in XiLoo, zi \in ZiSet :
       call' = Called("loo", [xi |-> xi, zi |-> zi], Loo(self, backend, xi, zi))
  /\ pc' = "returned"
  /\ UNCHANGED <<self, backend>>

negative_log_likelihood ==
  /\ pc = "idle"
  /\ \E covparam \in CovArgs, xi \in XiLik, zi \in ZiLik :
       call' = Called("negative_log_likelihood",
                      [covparam |-> covparam, xi |-> xi, zi |-> zi],
                      NegativeLogLikelihood(self, backend, covparam, xi, zi))
  /\ pc' = "returned"
  /\ UNCHANGED <<self, backend>>

negative_log_restricted_likelihood ==
  /\ pc = "idle"
  /\ \E covparam \in CovArgs, xi \in XiLik, zi \in ZiLik :
       /\ LikExact(self, xi)
       /\ call' = Called("negative_log_restricted_likelihood",
                         [covparam |-> covparam, xi |-> xi, zi |-> zi],
                         NegativeLogRestrictedLikelihood(self, backend, covparam, xi, zi))
  /\ pc' = "returned"
  /\ UNCHANGED <<self, backend>>

norm_k_sqrd_with_zero_mean ==
  /\ pc = "idle"
  /\ \E covparam \in CovArgs, xi \in XiLik, zi \in ZiLik :
       call' = Called("norm_k_sqrd_with_zero_mean",
                      [covparam |-> covparam, xi |-> xi, zi |-> zi],
                      NormKSqrdWithZeroMean(self, backend, xi, zi, covparam))
  /\ pc' = "returned"
  /\ UNCHANGED <<self, backend>>

norm_k_sqrd ==
  /\ pc = "idle"
  /\ \E covparam \in CovArgs, xi \in XiLik, zi \in ZiLik :
       /\ LikExact(self, xi)
       /\ call' = Called("norm_k_sqrd",
                         [covparam |-> covparam, xi |-> xi, zi |-> zi],
                         NormKSqrd(self, backend, xi, zi, covparam))
  /\ pc' = "returned"
  /\ UNCHANGED <<self, backend>>

SamplePathsCalls(factor, args) ==
  IF factor.outcome = "raise"
  THEN call' = Called("sample_paths", args, SamplePaths(factor, None))
  ELSE \E randn \in RandnSet(Len(args.xt), args.nb_paths) :
         call' = Called("sample_paths", args, SamplePaths(factor, randn))

sample_paths ==
  /\ pc = "idle"
  /\ \E xt \in XtPaths, nb_paths \in 1..MaxPaths, method \in Methods,
        check_result \in BOOLEAN, on_failure \in {"raise", "propagate"} :
       /\ LET K == Covariance(self.covariance, xt, xt, self.covparam, FALSE)
          IN  K.ok => ExactSquareRoot(K.v, method)
       /\ SamplePathsCalls(
            SamplePathsFactor(self, xt, method, check_result, on_failure),
            [xt |-> xt, nb_paths |-> nb_paths, method |-> method,
             check_result |-> check_result])
  /\ pc' = "returned"
  /\ UNCHANGED <<self, backend>>

conditional_sample_paths ==
  /\ pc = "idle"
  /\ \E ztsim \in ZtSimSet, xi_ind \in IndSet, zi \in ZiCond, xt_ind \in IndSet,
        lambda_t \in LambdaSet :
       /\ NRows(lambda_t) = Larger(Len(zi), Len(xi_ind)) \/ NRows(lambda_t) > 1
       /\ call' = Called("conditional_sample_paths",
                         [ztsim |-> ztsim, xi_ind |-> xi_ind, zi |-> zi,
                          xt_ind |-> xt_ind, lambda_t |-> lambda_t],
                         ConditionalSamplePaths(ztsim, xi_ind, zi, xt_ind, lambda_t))
  /\ pc' = "returned"
  /\ UNCHANGED <<self, backend>>

\* the caller takes the result
Return ==
  /\ pc = "returned"
  /\ pc' = "idle"
  /\ call' = NoCall
  /\ UNCHANGED <<self, backend>>

\* the optimizer (or any caller) assigns a parameter vector between calls
ExternalAssign ==
  /\ pc = "idle"
  /\ \/ \E covparam \in CovParams : self' = [self EXCEPT !.covparam = covparam]
     \/ \E meanparam \in MeanParams : self' = [self EXCEPT !.meanparam = meanparam]
  /\ UNCHANGED <<backend, pc, call>>

Next ==
  \/ kriging_predictor_with_zero_mean
  \/ kriging_predictor
  \/ predict
  \/ loo_with_zero_mean
  \/ loo
  \/ negative_log_likelihood
  \/ negative_log_restricted_likelihood
  \/ norm_k_sqrd_with_zero_mean
  \/ norm_k_sqrd
  \/ sample_paths
  \/ conditional_sample_paths
  \/ Return
  \/ ExternalAssign

Spec == Init /\ [][Next]_vars

(***************************************************************************)
(* Properties.  Each is stated on the record of the call that has just     *)
(* ended (pc = "returned"), or on the steps of the state machine.          *)
(***************************************************************************)
Attributes == {"mean", "covariance", "meanparam", "covparam"}

Count(tr, e) == Cardinality({i \in 1..Len(tr) : tr[i] = e})

Ended(op) == pc = "returned" /\ call.op = op

\* C1: negative_log_restricted_likelihood never raises when the Cholesky
\* factorization of the contrast covariance G = W'KW fails: on every backend
\* the call returns the positive-infinity sentinel.  (A call that ends at the
\* factorization has a trace ending with "cholesky".)
C1_FactorizationFailureReturnsInf ==
  (Ended("negative_log_restricted_likelihood")
     /\ Len(call.trace) > 0 /\ call.trace[Len(call.trace)] = "cholesky")
  => (call.outcome = "return" /\ call.value = InfTensor)

\* C2: a predict call with zero_neg_variances = True that returns, returns a
\* posterior variance whose every entry is >= 0, whatever the predictor gave.
C2_ClampedVarianceNonNegative ==
  (Ended("predict") /\ call.outcome = "return" /\ call.args.zero_neg_variances)
  => \A j \in 1..Len(call.value.variance) :
       ~IsNaN(call.value.variance[j]) /\ ~Lt0(call.value.variance[j])

\* C2, its case: the predictor produced a negative variance and predict, asked
\* to clamp, returned.
C2_NegativeVarianceClamped ==
  /\ Ended("predict") /\ call.outcome = "return" /\ call.args.zero_neg_variances
  /\ AnyNegative(Dispatch(self, backend, call.args.xi, call.args.xt).value.variance)

\* C3: sample_paths with method = 'chol' and check_result = True raises, and
\* returns no paths, whenever the Cholesky factor the backend hands back has a
\* non-finite entry, NaN or infinity.
C3_NonFiniteFactorRaises ==
  (Ended("sample_paths") /\ call.args.method = "chol" /\ call.args.check_result)
  => \A on_failure \in {"raise", "propagate"} :
       LET K == Covariance(self.covariance, call.args.xt, call.args.xt, self.covparam, FALSE)
           C == Cholesky(K.v, on_failure)
       IN  (K.ok /\ C.ok /\ ~MatFinite(C.v)) => call.outcome = "raise"

\* C4: predict, loo and loo_with_zero_mean fail at entry, before any
\* covariance evaluation or solve (an empty trace), when xi and zi disagree on
\* the number of observations or xi and xt on the dimension.
C4_ShapeMismatchFailsAtEntry ==
  (/\ pc = "returned"
   /\ \/ /\ call.op = "predict" /\ call.args.convert_in
         /\ \/ Len(call.args.xi) # Len(call.args.zi)
            \/ Dim(call.args.xi) # Dim(call.args.xt)
      \/ /\ call.op \in {"loo", "loo_with_zero_mean"}
         /\ Len(call.args.xi) # Len(call.args.zi))
  => (call.outcome = "raise" /\ call.trace = <<>>)

C6_WarningIffNegativeVariance ==
  (Ended("predict") /\ call.args.convert_in)
  => LET pred == Dispatch(self, backend, call.args.xi, call.args.xt)
     IN  IF pred.outcome = "raise" THEN call.warnings = <<>>
         ELSE /\ AnyNegative(pred.value.variance) => call.warnings = <<"RuntimeWarning">>
              /\ ~AnyNegative(pred.value.variance) => call.warnings = <<>>
              /\ Len(call.args.zi) = Len(call.args.xi) => call.outcome = "return"

\* C6, its case: predict warned about a negative variance, clamped it, and
\* returned.
C6_WarnedClampedReturned ==
  /\ Ended("predict") /\ call.outcome = "return"
  /\ call.warnings = <<"RuntimeWarning">>
  /\ call.args.zero_neg_variances
  /\ ~AnyNegative(call.value.variance)

\* C7: no call changes the Model: a step that starts or ends a call leaves
\* mean, covariance, meanparam and covparam as they are, the Model never has
\* another attribute, and a step that changes the Model is an external
\* assignment of meanparam or covparam, made between calls.
C7_CallsLeaveModelUnchanged ==
  [][/\ (pc = "returned" \/ pc' = "returned") => self' = self
     /\ DOMAIN self' = Attributes
     /\ self'.mean = self.mean /\ self'.covariance = self.covariance
     /\ self' # self => (pc = "idle" /\ pc' = "idle" /\ call' = call)]_vars

\* C7, its case: a predictor call has computed kriging weights and returned,
\* the Model holding its four attributes only.
C7_PredictorReturned ==
  /\ Ended("kriging_predictor_with_zero_mean") /\ call.outcome = "return"
  /\ call.value.lambda_t # None
  /\ DOMAIN self = Attributes

\* the likelihood call op on the Model s
LikelihoodCall(op, s, be, args) ==
  IF op = "negative_log_likelihood"
  THEN NegativeLogLikelihood(s, be, args.covparam, args.xi, args.zi)
  ELSE NegativeLogRestrictedLikelihood(s, be, args.covparam, args.xi, args.zi)

SameResult(c, res) == c.outcome = res.outcome /\ c.exc = res.exc /\ c.value = res.value

\* C8, as stated: the result of negative_log_likelihood and of
\* negative_log_restricted_likelihood is the same on every Model with the same
\* callables, whatever meanparam and covparam it stores.
C8_IndependentOfStoredParameters ==
  (pc = "returned"
     /\ call.op \in {"negative_log_likelihood", "negative_log_restricted_likelihood"})
  => \A meanparam \in MeanParams, covparam \in CovParams :
       LET other == [self EXCEPT !.meanparam = meanparam, !.covparam = covparam]
       IN  LikExact(other, call.args.xi)
             => SameResult(call, LikelihoodCall(call.op, other, backend, call.args))

\* C8, amended: the result of negative_log_likelihood is the same whatever
\* meanparam and covparam the Model stores; the result of
\* negative_log_restricted_likelihood is the same whatever covparam the Model
\* stores, on Models that store the same meanparam.
C8_IndependentOfStoredCovparam ==
  /\ Ended("negative_log_likelihood")
       => \A meanparam \in MeanParams \cup {None}, covparam \in CovParams :
            SameResult(call,
                       LikelihoodCall(call.op,
                                      [self EXCEPT !.meanparam = meanparam,
                                                   !.covparam = covparam],
                                      backend, call.args))
  /\ Ended("negative_log_restricted_likelihood")
       => \A covparam \in CovParams :
            SameResult(call,
                       LikelihoodCall(call.op, [self EXCEPT !.covparam = covparam],
                                      backend, call.args))

\* C8, its case: a likelihood was computed at a covparam that is not the
\* stored one.
C8_LikelihoodAtOtherCovparam ==
  /\ Ended("negative_log_likelihood") /\ call.outcome = "return"
  /\ call.value.kind = "finite"
  /\ self.covparam # call.args.covparam

\* C9: in every call of predict exactly one predictor is invoked, once:
\* kriging_predictor_with_zero_mean when the Model's mean is None,
\* kriging_predictor otherwise.
C9_ExactlyOnePredictor ==
  Ended("predict")
  => /\ Count(call.trace, "kriging_predictor_with_zero_mean")
          = (IF self.mean = "None" THEN 1 ELSE 0)
     /\ Count(call.trace, "kriging_predictor") = (IF self.mean = "None" THEN 0 ELSE 1)

\* the predictor call op on the Model s
PredictorCall(op, s, be, args, return_type) ==
  IF op = "kriging_predictor_with_zero_mean"
  THEN KrigingPredictorWithZeroMean(s, be, args.xi, args.xt, return_type)
  ELSE KrigingPredictor(s, be, args.xi, args.xt, return_type)

\* C10: a predictor call that returns, returns the n x m weights every
\* return_type returns; with return_type -1 the variance is None and no prior
\* variance is evaluated; with 0 it is a vector of length m, the diagonal of
\* what 1 returns; with 1 it is an m x m matrix whose diagonal is what 0
\* returns.
C10_ReturnTypes ==
  (pc = "returned" /\ call.op \in {"kriging_predictor_with_zero_mean", "kriging_predictor"}
     /\ call.outcome = "return")
  => LET m == Len(call.args.xt)
         as0 == PredictorCall(call.op, self, backend, call.args, 0)
         as1 == PredictorCall(call.op, self, backend, call.args, 1)
     IN  /\ NRows(call.value.lambda_t) = Len(call.args.xi)
         /\ NCols(call.value.lambda_t) = m
         /\ \A return_type \in ReturnTypes :
              LET other == PredictorCall(call.op, self, backend, call.args, return_type)
              IN  other.outcome = "return" /\ other.value.lambda_t = call.value.lambda_t
         /\ call.args.return_type = -1
              => /\ call.value.variance = None
                 /\ Count(call.trace, "covariance(xt,pairwise)") = 0
                 /\ Count(call.trace, "covariance(xt,full)") = 0
         /\ call.args.return_type = 0
              => /\ Len(call.value.variance) = m
                 /\ call.value.variance = Diag(as1.value.variance)
         /\ call.args.return_type = 1
              => /\ NRows(call.value.variance) = m
                 /\ NCols(call.value.variance) = m
                 /\ Diag(call.value.variance) = as0.value.variance

\* C10, its case: a full posterior covariance of two target points was
\* returned, with a variance reduced by the observations.
C10_FullCovarianceReturned ==
  /\ Ended("kriging_predictor") /\ call.outcome = "return"
  /\ call.args.return_type = 1
  /\ Len(call.args.xt) = 2
  /\ call.value.variance
       # Covariance(self.covariance, call.args.xt, None, self.covparam, FALSE).v

\* C11: for every combination of return_lambdas, zero_neg_variances,
\* convert_in and convert_out, predict on well-formed inputs (as many observed
\* values as observation points, a predictor that succeeds on xi, xt) returns
\* the posterior mean and variance, followed by the weights exactly when
\* return_lambdas is True, and with zero_neg_variances = False the variance is
\* the predictor's, unmodified.
C11_EveryFlagCombinationCompletes ==
  Ended("predict")
  => LET pred == Dispatch(self, backend, call.args.xi, call.args.xt)
     IN  (pred.outcome = "return" /\ Len(call.args.zi) = Len(call.args.xi))
         => /\ call.outcome = "return"
            /\ call.value.length = (IF call.args.return_lambdas THEN 3 ELSE 2)
            /\ Len(call.value.mean) = Len(call.args.xt)
            /\ Len(call.value.variance) = Len(call.args.xt)
            /\ call.args.return_lambdas => call.value.lambda_t = pred.value.lambda_t
            /\ ~call.args.return_lambdas => call.value.lambda_t = None
            /\ ~call.args.zero_neg_variances => call.value.variance = pred.value.variance

\* the projected inverse of the LOO call op at xi: Kinv for the zero mean,
\* Kinv - Kinv P (P' Kinv P)^-1 P' Kinv otherwise
ProjectedInverse(op, s, xi) ==
  LET K == Covariance(s.covariance, xi, xi, s.covparam, FALSE).v
      Kinv == Inverse(K)
      P == Mean(s.mean, xi, s.meanparam).v
      KinvP == MatMul(Kinv, P)
      PtKinvP == MatMul(Transpose(P), KinvP)
  IN  IF op = "loo_with_zero_mean" THEN Kinv
      ELSE MatSub(Kinv, MatMul(KinvP, MatMul(Inverse(PtKinvP), Transpose(KinvP))))

\* C12, as stated: for the outputs (zloo, sigma2loo, eloo) of loo and of
\* loo_with_zero_mean, at every index i: eloo_i * Qinv_ii = (Qinv zi)_i,
\* sigma2loo_i = 1 / Qinv_ii, zloo_i + eloo_i = zi_i, and sigma2loo_i > 0
\* whenever Qinv_ii > 0; the outputs are indexed like the observations.
C12_LooIdentities ==
  (pc = "returned" /\ call.op \in {"loo", "loo_with_zero_mean"} /\ call.outcome = "return")
  => LET Qinv == ProjectedInverse(call.op, self, call.args.xi)
         Qinvzi == MatVec(Qinv, call.args.zi)
         n == Len(call.args.zi)
     IN  /\ Len(call.value.zloo) = n /\ Len(call.value.sigma2loo) = n
         /\ Len(call.value.eloo) = n
         /\ \A i \in 1..n :
              /\ Mul(call.value.eloo[i], Qinv[i][i]) = Qinvzi[i]
              /\ call.value.sigma2loo[i] = Div(One, Qinv[i][i])
              /\ Add(call.value.zloo[i], call.value.eloo[i]) = call.args.zi[i]
              /\ Gt0(Qinv[i][i]) => Gt0(call.value.sigma2loo[i])

\* C12, amended: the identities in eloo_i and zloo_i hold at every index i
\* where Qinv_ii is not zero; sigma2loo_i = 1 / Qinv_ii (infinite where Qinv_ii
\* is zero) and its sign hold at every index.
C12_LooIdentitiesWhereDefined ==
  (pc = "returned" /\ call.op \in {"loo", "loo_with_zero_mean"} /\ call.outcome = "return")
  => LET Qinv == ProjectedInverse(call.op, self, call.args.xi)
         Qinvzi == MatVec(Qinv, call.args.zi)
         n == Len(call.args.zi)
     IN  /\ Len(call.value.zloo) = n /\ Len(call.value.sigma2loo) = n
         /\ Len(call.value.eloo) = n
         /\ \A i \in 1..n :
              /\ Qinv[i][i] # Zero
                   => /\ Mul(call.value.eloo[i], Qinv[i][i]) = Qinvzi[i]
                      /\ Add(call.value.zloo[i], call.value.eloo[i]) = call.args.zi[i]
              /\ call.value.sigma2loo[i] = Div(One, Qinv[i][i])
              /\ Gt0(Qinv[i][i]) => Gt0(call.value.sigma2loo[i])

\* C12, its case: loo returned on three observations, with residuals that are
\* not all zero and a projected inverse of non-zero diagonal.
C12_LooOnThreePoints ==
  /\ Ended("loo") /\ call.outcome = "return"
  /\ Len(call.args.xi) = 3
  /\ \E i \in 1..3 : call.value.eloo[i] # Zero
  /\ \A i \in 1..3 : ProjectedInverse("loo", self, call.args.xi)[i][i] # Zero

\* predict fitted on the observations without the i-th, at the i-th point
RefitWithout(s, be, xi, zi, i) ==
  LET Without(q) == SubSeq(q, 1, i - 1) \o SubSeq(q, i + 1, Len(q))
  IN  Predict(Dispatch(s, be, Without(xi), <<xi[i]>>), be, Without(zi),
              FALSE, TRUE, TRUE, TRUE)

Orthogonal(k) ==
  { Eye(k),
    [i \in 1..k |-> [j \in 1..k |-> IF i = j THEN (IF i = 1 THEN R(-1) ELSE One) ELSE Zero]],
    [i \in 1..k |-> [j \in 1..k |-> IF j = (i % k) + 1 THEN One ELSE Zero]],
    [i \in 1..k |-> [j \in 1..k |-> Sub(IF i = j THEN One ELSE Zero, Frac(2, k))]] }

\* C14: the result of negative_log_restricted_likelihood is the one obtained
\* from any other orthonormal basis W*U of the contrast space, U orthogonal:
\* W*U spans the same space (P'WU = 0, (WU)'WU = I), and the criterion computed
\* from W*U has the outcome and the value of the call
C14_IndependentOfContrastBasis ==
  (/\ pc = "returned" /\ call.op = "negative_log_restricted_likelihood"
   /\ "qr" \in {call.trace[k] : k \in 1..Len(call.trace)})
  => LET K == Covariance(self.covariance, call.args.xi, call.args.xi, call.args.covparam, FALSE).v
         P == Mean(self.mean, call.args.xi, self.meanparam).v
         W == ContrastMatrix(P)
     IN  \A U \in Orthogonal(NCols(W)) :
           /\ MatMul(Transpose(U), U) = Eye(NCols(W))
           /\ LET WU == MatMul(W, U)
                  other == RestrictedCriterion(K, WU, NCols(P), backend, call.args.zi)
              IN  /\ MatMul(Transpose(WU), WU) = Eye(NCols(W))
                  /\ MatMul(Transpose(P), WU) = Zeros(NCols(P), NCols(W))
                  /\ other.outcome = call.outcome
                  /\ other.exc = call.exc
                  /\ other.value = call.value

\* a restricted likelihood returned finite on four observations (a contrast
\* space of dimension 3, where the bases differ by more than a sign)
C14_RestrictedLikelihoodOnFourPoints ==
  /\ pc = "returned" /\ call.op = "negative_log_restricted_likelihood"
  /\ call.outcome = "return"
  /\ Len(call.args.xi) = 4
  /\ call.value.kind = "finite"

\* C15: the weights kriging_predictor returns are the first n rows of a
\* solution X of [[Kii, P], [P', 0]] X = [Kit; mean(xt)'], n the number of
\* observations: X has n + q rows, the q Lagrange-multiplier rows are not
\* among the weights, and P' * lambda_t = mean(xt)' for every target point
C15_WeightsSolveAugmentedSystem ==
  (/\ pc = "returned" /\ call.op = "kriging_predictor" /\ call.outcome = "return")
  => LET Kii == Covariance(self.covariance, call.args.xi, call.args.xi, self.covparam, FALSE).v
         Kit == Covariance(self.covariance, call.args.xi, call.args.xt, self.covparam, FALSE).v
         P == Mean(self.mean, call.args.xi, self.meanparam).v
         Pt == Mean(self.mean, call.args.xt, self.meanparam).v
         n == Len(call.args.xi)
         q == NCols(P)
         LHS == VStack(HStack(Kii, P), HStack(Transpose(P), Zeros(q, q)))
         RHS == VStack(Kit, Transpose(Pt))
         lambda_t == call.value.lambda_t
     IN  /\ NRows(lambda_t) = n
         /\ NCols(lambda_t) = Len(call.args.xt)
         /\ MatMul(Transpose(P), lambda_t) = Transpose(Pt)
         /\ \E X \in {Solve(LHS, RHS).v} :
              /\ NRows(X) = n + q
              /\ MatMul(LHS, X) = RHS
              /\ SubSeq(X, 1, n) = lambda_t

\* kriging_predictor returned weights for two observations and two targets
C15_WeightsReturned ==
  /\ pc = "returned" /\ call.op = "kriging_predictor" /\ call.outcome = "return"
  /\ Len(call.args.xi) = 2
  /\ Len(call.args.xt) = 2

====
